---- MODULE Spec2Model ----
(***************************************************************************)
(* Chat rooms with an AI assistant: the socket.io event handlers           *)
(* (services/socketService), the chat HTTP routes (routes/chat), the       *)
(* usage-quota bookkeeping of GeminiService and the writers of the         *)
(* Subscription row.  Every `await` of a handler is a separate step, so    *)
(* handlers of different requests interleave as they do on the Node.js     *)
(* event loop.  A step is: the code that runs after the previous await,    *)
(* followed by the effect of the awaited call.                             *)
(***************************************************************************)
EXTENDS Integers, Sequences, FiniteSets, TLC

(* ---- bounds ---- *)
NumProcs == 2          \* request / event handler invocations in one run
NumSessions == 2       \* live connections in one run
MaxLimit == 2          \* largest monthlyMessageLimit drawn
NumReqs == 3           \* HTTP requests through the rate limiters in one run
BaseMax == 1           \* RATE_LIMIT_MAX_REQUESTS, scaled down
PremiumMax == 2        \* RATE_LIMIT_PREMIUM_MAX_REQUESTS, scaled down
AiMax == 1             \* max of aiChatLimiter, scaled down
ExpireTicks == 2       \* the expiry createRedisStore gives a key, in ticks
AiWindowTicks == 1     \* windowMs of aiChatLimiter, in ticks
RoomSize == 2          \* ChatRoom.maxMembers of the rooms, scaled down
MaxCtx == 2            \* longest `context` array of an invocation

Procs == 1..NumProcs
Sessions == 1..NumSessions
Reqs == 1..NumReqs

(* ---- the database rows the handlers read ---- *)
Users == {"u1", "u2"}
Rooms == {"r1", "r2"}
NoUser == "none"

\* The User rows: the two users above are ACTIVE, two more accounts are not.
Accounts == Users \cup {"u3", "u4"}
UserStatus ==
  [a \in Accounts |->
     IF a \in Users THEN "ACTIVE" ELSE IF a = "u3" THEN "SUSPENDED" ELSE "PENDING_VERIFICATION"]

\* The ids a ChatRoom row can have: the two rooms of the seed rows and the one
\* POST /chat can create.
NewRoom == "r3"
AllRooms == Rooms \cup {NewRoom}
NoRoom == [exists |-> FALSE, type |-> "PRIVATE", maxMembers |-> 0, createdBy |-> NoUser]

\* ChatRoom.allowAI: no handler writes it, so it is a fixed row value.
allowAI == [r \in Rooms |-> r = "r1"]

VARIABLES
  member,         \* ChatRoomMember rows: set of <<userId, chatRoomId>>
  sub,            \* Subscription row per user: [limit, used]
  messageCount,   \* User.messageCount per user
  messages,       \* Message rows in creation order (index = id = createdAt order)
  conn,           \* per socket: "none" | "open" | "closed"
  sessUser,       \* socket.user.id of each socket
  pendingJoin,    \* joinUserChatRooms of the socket has not finished
  subs,           \* socket.io rooms of each socket
  connectedUsers, \* Map userId -> socketId
  handshake,      \* per socket: the token its handshake carried
  inbox,          \* events delivered to each socket, in delivery order
  proc,           \* the handler invocations, each with its position
  req,            \* the HTTP requests in the rate-limiting middleware
  store,          \* per limiter and key: [hits, ttl] of its counter store
  windowMs,       \* RATE_LIMIT_WINDOW_MS, in ticks
  ref,            \* per limiter and key: [count, age] of the window since its first hit
  chatRoom,       \* ChatRoom row per id: [exists, type, maxMembers, createdBy]
  owners,         \* the ChatRoomMember rows whose role is OWNER
  memberRows      \* how many ChatRoomMember rows each (userId, chatRoomId) has

vars == <<member, sub, messageCount, messages, conn, sessUser, pendingJoin,
          subs, connectedUsers, handshake, inbox, proc, req, store, windowMs, ref,
          chatRoom, owners, memberRows>>

roomVars == <<chatRoom, owners, memberRows>>
dbVars == <<member, sub, messageCount, messages, roomVars>>
sockVars == <<conn, sessUser, pendingJoin, subs, connectedUsers, handshake>>
limVars == <<req, store, windowMs, ref>>

NoSession == 0

\* The `context` of an invocation: not supplied, or an array of turns.
NoContext == [given |-> FALSE, turns |-> <<>>]

Idle ==
  [kind |-> "idle", pc |-> "idle", user |-> NoUser, sess |-> NoSession,
   room |-> "r1", ai |-> FALSE, mem |-> FALSE, canUse |-> FALSE, remaining |-> 0,
   umsg |-> 0, amsg |-> 0, called |-> FALSE, incSub |-> FALSE, incUser |-> FALSE,
   ubcast |-> FALSE, abcast |-> FALSE, failedAt |-> "",
   result |-> "", aiResult |-> "", status |-> 0, respRemaining |-> 0,
   role |-> "", content |-> "ok", gone |-> FALSE, ctx |-> NoContext, prompt |-> <<>>,
   quota |-> ""]

\* The rows the run starts from: u1 is a member of both rooms, u2 of r2 only;
\* r1 has the assistant on, r2 off; every user has a subscription with nothing used.
\* u1 created both rooms (its rows have role OWNER); r1 is private, r2 is not.
InitRows(l) ==
  /\ member = {<<"u1", "r1">>, <<"u1", "r2">>, <<"u2", "r2">>}
  /\ sub = [u \in Users |-> [limit |-> l, used |-> 0, exists |-> TRUE]]
  /\ messageCount = [u \in Users |-> 0]
  /\ messages = <<>>
  /\ proc = [p \in Procs |-> Idle]
  /\ chatRoom = [r \in AllRooms |->
        IF r = "r1" THEN [exists |-> TRUE, type |-> "PRIVATE", maxMembers |-> RoomSize,
                          createdBy |-> "u1"]
        ELSE IF r = "r2" THEN [exists |-> TRUE, type |-> "GROUP", maxMembers |-> RoomSize,
                               createdBy |-> "u1"]
        ELSE NoRoom]
  /\ owners = {<<"u1", "r1">>, <<"u1", "r2">>}
  /\ memberRows = [k \in Accounts \X AllRooms |-> IF k \in member THEN 1 ELSE 0]

\* createChatRoomValidator: body('maxMembers').isInt({ min: 2, max: 100 }).
MinRoomSize == 2

\* Other rows the run can start from: r2 is a group room that account u3
\* created with the smallest maxMembers there is and nobody has joined yet, so
\* one place is left in it; u1 has its private room r1.
InitOpenRoom ==
  /\ member = {<<"u1", "r1">>, <<"u3", "r2">>}
  /\ sub = [u \in Users |-> [limit |-> MaxLimit, used |-> 0, exists |-> TRUE]]
  /\ messageCount = [u \in Users |-> 0]
  /\ messages = <<>>
  /\ proc = [p \in Procs |-> Idle]
  /\ chatRoom = [r \in AllRooms |->
        IF r = "r1" THEN [exists |-> TRUE, type |-> "PRIVATE", maxMembers |-> RoomSize,
                          createdBy |-> "u1"]
        ELSE IF r = "r2" THEN [exists |-> TRUE, type |-> "GROUP", maxMembers |-> MinRoomSize,
                               createdBy |-> "u3"]
        ELSE NoRoom]
  /\ owners = {<<"u1", "r1">>, <<"u3", "r2">>}
  /\ memberRows = [k \in Accounts \X AllRooms |-> IF k \in member THEN 1 ELSE 0]

\* The rows of InitRows, except that one of the users may have no Subscription
\* row (User.subscription is optional in the schema).
InitLedger ==
  /\ member = {<<"u1", "r1">>, <<"u1", "r2">>, <<"u2", "r2">>}
  /\ \E n \in Users \cup {NoUser} :
       sub = [u \in Users |-> [limit |-> MaxLimit, used |-> 0, exists |-> u # n]]
  /\ messageCount = [u \in Users |-> 0]
  /\ messages = <<>>
  /\ proc = [p \in Procs |-> Idle]
  /\ chatRoom = [r \in AllRooms |->
        IF r = "r1" THEN [exists |-> TRUE, type |-> "PRIVATE", maxMembers |-> RoomSize,
                          createdBy |-> "u1"]
        ELSE IF r = "r2" THEN [exists |-> TRUE, type |-> "GROUP", maxMembers |-> RoomSize,
                               createdBy |-> "u1"]
        ELSE NoRoom]
  /\ owners = {<<"u1", "r1">>, <<"u1", "r2">>}
  /\ memberRows = [k \in Accounts \X AllRooms |-> IF k \in member THEN 1 ELSE 0]

(* ---- accounts and handshake tokens ---- *)
\* socket.handshake.auth.token: absent, not verifiable, expired, or a signed
\* token for a userId ("u0" is the id of a row that no longer exists).
NoToken == [kind |-> "none", uid |-> NoUser]
ValidToken(a) == [kind |-> "valid", uid |-> a]
Tokens ==
  {[kind |-> k, uid |-> NoUser] : k \in {"missing", "invalid", "expired"}}
    \cup {ValidToken(a) : a \in Accounts \cup {"u0"}}

(* ---- the rate limiters' inputs ---- *)
Ips == {"ip1", "ip2"}
Limiters == {"general", "ai"}
Keys == [ip : Ips, auth : BOOLEAN]
NoTtl == 0
NoKey == [ip |-> "none", auth |-> FALSE]

IdleReq ==
  [pc |-> "idle", ip |-> "ip1", user |-> NoUser, path |-> "chat", key |-> NoKey,
   totalHits |-> 0, nth |-> 0, aiHits |-> 0, aiNth |-> 0,
   general |-> "", ai |-> "", status |-> 0, resetIn |-> 0]

\* No request yet, empty counter stores; w is the configured window of rateLimiter.
LimiterBoot(w) ==
  /\ req = [q \in Reqs |-> IdleReq]
  /\ store = [l \in Limiters |-> [k \in Keys |-> [hits |-> 0, ttl |-> NoTtl]]]
  /\ windowMs = w
  /\ ref = [l \in Limiters |-> [k \in Keys |-> [count |-> 0, age |-> 0]]]

\* RATE_LIMIT_WINDOW_MS unset: the default, the same 15 minutes as the key expiry.
LimiterDefault == LimiterBoot(ExpireTicks)

\* The server right after socketHandler(io): no socket yet.
Offline ==
  /\ conn = [s \in Sessions |-> "none"]
  /\ sessUser = [s \in Sessions |-> NoUser]
  /\ pendingJoin = [s \in Sessions |-> FALSE]
  /\ subs = [s \in Sessions |-> {}]
  /\ connectedUsers = [u \in Users |-> NoSession]
  /\ handshake = [s \in Sessions |-> NoToken]
  /\ inbox = [s \in Sessions |-> <<>>]

InitBoot == InitRows(MaxLimit) /\ Offline /\ LimiterDefault

\* The server once the sockets have connected in turn (odd ones for u1, even
\* ones for u2) and joinUserChatRooms has put each in the rooms of its user.
SocketOwner(s) == IF s % 2 = 1 THEN "u1" ELSE "u2"

Online ==
  /\ conn = [s \in Sessions |-> "open"]
  /\ sessUser = [s \in Sessions |-> SocketOwner(s)]
  /\ pendingJoin = [s \in Sessions |-> FALSE]
  /\ subs = [s \in Sessions |-> {r \in Rooms : <<SocketOwner(s), r>> \in member}]
  /\ connectedUsers = [u \in Users |->
        IF \E s \in Sessions : SocketOwner(s) = u
        THEN CHOOSE s \in Sessions :
               SocketOwner(s) = u /\ \A t \in Sessions : SocketOwner(t) = u => t <= s
        ELSE NoSession]
  /\ handshake = [s \in Sessions |-> ValidToken(SocketOwner(s))]
  /\ inbox = [s \in Sessions |-> <<>>]

Init == (\E l \in 1..MaxLimit : InitRows(l)) /\ Online /\ LimiterDefault

(* ---- socket.io primitives ---- *)
\* An emit that ignores the room: every connected socket gets the event.
EmitEverySocket(box, r, ev) ==
  [s \in Sessions |-> IF conn[s] = "open" THEN Append(box[s], ev) ELSE box[s]]

\* An emit whose deliveries are not in emission order on every socket.
EmitRoomShuffled(box, r, ev) ==
  [s \in Sessions |->
     IF conn[s] = "open" /\ r \in subs[s]
     THEN IF s % 2 = 1 THEN Append(box[s], ev) ELSE <<ev>> \o box[s]
     ELSE box[s]]

\* io.to(room).emit(ev): every connected socket that is in the room gets it.
EmitRoom(box, r, ev) ==
  [s \in Sessions |->
     IF conn[s] = "open" /\ r \in subs[s] THEN Append(box[s], ev) ELSE box[s]]

\* socket.emit(ev): the socket itself gets it, while it is connected.
EmitSocket(box, s, ev) ==
  [t \in Sessions |->
     IF t = s /\ conn[s] = "open" THEN Append(box[t], ev) ELSE box[t]]

\* An emit to the room that does not leave the sender out.
EmitRoomAndSender(box, s, r, ev) ==
  [t \in Sessions |->
     IF conn[t] = "open" /\ r \in subs[t] THEN Append(box[t], ev) ELSE box[t]]

\* socket.to(room).emit(ev): every connected socket in the room except s gets it.
EmitOthers(box, s, r, ev) ==
  [t \in Sessions |->
     IF t # s /\ conn[t] = "open" /\ r \in subs[t] THEN Append(box[t], ev) ELSE box[t]]

\* A membership lookup that forgets the userId of its where clause.
IsMemberOfSomeone(u, r) == \E v \in Users : <<v, r>> \in member

\* prisma.chatRoomMember.findFirst({ where: { userId, chatRoomId } }) found a row.
IsMember(u, r) == <<u, r>> \in member

\* The role of the row that lookup found ("" when it found none).
RoleOf(u, r) ==
  IF <<u, r>> \notin member THEN "" ELSE IF <<u, r>> \in owners THEN "OWNER" ELSE "MEMBER"

\* A finished handler keeps what it did and answered; its locals are gone.
Finish(p, f) ==
  proc' = [proc EXCEPT ![p] = [f EXCEPT !.pc = "done", !.mem = FALSE, !.role = "",
                                        !.canUse = FALSE, !.remaining = 0]]
Goto(p, f, l) == proc' = [proc EXCEPT ![p] = [f EXCEPT !.pc = l]]

\* Handler invocations and sockets are numbered in the order they arrive.
FreeSlot(p) == proc[p].pc = "idle" /\ \A q \in Procs : q < p => proc[q].pc # "idle"
FreeSocket(s) == conn[s] = "none" /\ \A t \in Sessions : t < s => conn[t] # "none"

\* prisma.message.create: the new row gets the next id / createdAt.
NewMessage(sender, u, r, p) == [sender |-> sender, user |-> u, room |-> r, by |-> p]

(* ---- connection lifecycle: io.on('connection'), joinUserChatRooms, disconnect ---- *)
\* A handshake that passed io.use: the socket is registered and the restoration
\* of its rooms is started (its findMany is awaited).
Register(s, u) ==
  /\ conn' = [conn EXCEPT ![s] = "open"]
  /\ sessUser' = [sessUser EXCEPT ![s] = u]
  /\ connectedUsers' = [connectedUsers EXCEPT ![u] = s]
  /\ pendingJoin' = [pendingJoin EXCEPT ![s] = TRUE]

Connect(s, u) ==
  /\ FreeSocket(s)
  /\ Register(s, u)
  /\ handshake' = [handshake EXCEPT ![s] = ValidToken(u)]
  /\ UNCHANGED <<dbVars, subs, inbox, proc, limVars>>

\* socket.join(room) once the handler's await has returned.  The handlers do
\* not test socket.connected first.  On a socket that has disconnected in the
\* meantime the call still adds it to the adapter's room in socket.io releases
\* before 4.5.2 and does nothing in later ones; the release in use is not
\* pinned by the sources, so both outcomes are possible.
JoinAdds(s) == IF conn[s] = "open" THEN {TRUE} ELSE BOOLEAN

\* findMany returns (or throws, which is logged) and the socket joins the rooms.
JoinUserChatRooms(s) ==
  /\ pendingJoin[s]
  /\ pendingJoin' = [pendingJoin EXCEPT ![s] = FALSE]
  /\ \E ok \in BOOLEAN, add \in JoinAdds(s) :
       subs' = [subs EXCEPT ![s] =
                  IF ok /\ add
                  THEN @ \cup {r \in Rooms : IsMember(sessUser[s], r)} ELSE @]
  /\ UNCHANGED <<dbVars, conn, sessUser, connectedUsers, handshake, inbox, proc, limVars>>

\* A handler of an event the socket sent is at one of its awaits.
InFlightOf(s) == {p \in Procs : proc[p].sess = s /\ proc[p].pc \notin {"idle", "done"}}

\* A disconnect that also abandons the handlers of the socket that are in flight.
DisconnectAndCancel(s) ==
  /\ conn[s] = "open"
  /\ conn' = [conn EXCEPT ![s] = "closed"]
  /\ subs' = [subs EXCEPT ![s] = {}]
  /\ connectedUsers' = [connectedUsers EXCEPT ![sessUser[s]] = NoSession]
  /\ proc' = [p \in Procs |->
                IF p \in InFlightOf(s)
                THEN [proc[p] EXCEPT !.gone = TRUE, !.pc = "done", !.mem = FALSE,
                                     !.role = "", !.canUse = FALSE, !.remaining = 0]
                ELSE proc[p]]
  /\ UNCHANGED <<dbVars, sessUser, pendingJoin, handshake, inbox, limVars>>

\* socket.io drops the socket from all its rooms; the handler deletes the
\* registry entry of the user.  The handlers in flight are not told: they go on
\* (`gone` only records that their socket went away under them).
Disconnect(s) ==
  /\ conn[s] = "open"
  /\ conn' = [conn EXCEPT ![s] = "closed"]
  /\ subs' = [subs EXCEPT ![s] = {}]
  /\ connectedUsers' = [connectedUsers EXCEPT ![sessUser[s]] = NoSession]
  /\ proc' = [p \in Procs |->
                IF p \in InFlightOf(s) THEN [proc[p] EXCEPT !.gone = TRUE] ELSE proc[p]]
  /\ UNCHANGED <<dbVars, sessUser, pendingJoin, handshake, inbox, limVars>>

(* ---- io.use: the handshake authentication ---- *)
\* A user lookup that forgets the status of its where clause.
FindUser(uid) == uid \in Accounts

\* prisma.user.findUnique({ where: { id, status: 'ACTIVE' } }) found a row.
FindActiveUser(uid) == uid \in Accounts /\ UserStatus[uid] = "ACTIVE"

\* `!token` is false and jwt.verify does not throw.
JwtVerify(tok) == tok.kind = "valid"

\* The middleware up to its await: a missing token, or one jwt.verify throws
\* on, ends in next(new Error(...)); otherwise the user lookup is awaited.
Handshake(s, tok) ==
  /\ FreeSocket(s)
  /\ handshake' = [handshake EXCEPT ![s] = tok]
  /\ conn' = [conn EXCEPT ![s] = IF JwtVerify(tok) THEN "auth" ELSE "rejected"]
  /\ UNCHANGED <<dbVars, sessUser, pendingJoin, subs, connectedUsers, inbox, proc, limVars>>

\* The lookup returns: no row (or a rejected read) is next(new Error(...)), a
\* row is next() and the 'connection' handler runs.
Authenticate(s) ==
  /\ conn[s] = "auth"
  /\ \E ok \in BOOLEAN :
       IF ok /\ FindActiveUser(handshake[s].uid)
       THEN Register(s, handshake[s].uid)
       ELSE /\ conn' = [conn EXCEPT ![s] = "rejected"]
            /\ UNCHANGED <<sessUser, pendingJoin, connectedUsers>>
  /\ UNCHANGED <<dbVars, subs, handshake, inbox, proc, limVars>>

(* ---- socket.on('join_room') ---- *)
StartJoinRoom(p, s, r) ==
  /\ FreeSlot(p) /\ conn[s] = "open"
  /\ proc' = [proc EXCEPT ![p] = [Idle EXCEPT !.kind = "joinRoom", !.pc = "member",
                 !.user = sessUser[s], !.sess = s, !.room = r]]
  /\ UNCHANGED <<dbVars, sockVars, inbox, limVars>>

\* await prisma.chatRoomMember.findFirst(...) in the three handlers that start
\* with it; a rejected read is the handler's catch (live) or a 500 (HTTP).
ReadMembership(p) ==
  LET f == proc[p] IN
  /\ f.pc = "member"
  /\ \E ok \in BOOLEAN :
       IF ok
       THEN /\ Goto(p, [f EXCEPT !.mem = IsMember(f.user, f.room),
                                  !.role = RoleOf(f.user, f.room)], "checked")
            /\ UNCHANGED inbox
       ELSE /\ Finish(p, [f EXCEPT !.result = "Error",
                            !.status = IF f.sess = NoSession THEN 500 ELSE 0])
            /\ inbox' = IF f.sess = NoSession THEN inbox
                        ELSE EmitSocket(inbox, f.sess, <<"error", p>>)
  /\ UNCHANGED <<dbVars, sockVars, limVars>>

JoinRoom(p) ==
  LET f == proc[p] IN
  /\ f.kind = "joinRoom" /\ f.pc = "checked"
  /\ IF ~f.mem
     THEN /\ inbox' = EmitSocket(inbox, f.sess, <<"error", p>>)
          /\ Finish(p, [f EXCEPT !.result = "Forbidden"])
          /\ UNCHANGED subs
     ELSE /\ \E add \in JoinAdds(f.sess) :
               subs' = [subs EXCEPT ![f.sess] = IF add THEN @ \cup {f.room} ELSE @]
          /\ inbox' = EmitSocket(inbox, f.sess, <<"joined_room", p>>)
          /\ Finish(p, [f EXCEPT !.result = "joined"])
  /\ UNCHANGED <<dbVars, conn, sessUser, pendingJoin, connectedUsers, handshake, limVars>>

(* ---- socket.on('leave_room'): no await, one step ---- *)
\* A leave that also deletes the ChatRoomMember row.
LeaveRoomAndMembership(p, s, r) ==
  /\ FreeSlot(p) /\ conn[s] = "open"
  /\ subs' = [subs EXCEPT ![s] = @ \ {r}]
  /\ member' = member \ {<<sessUser[s], r>>}
  /\ memberRows' = [memberRows EXCEPT ![<<sessUser[s], r>>] = 0]
  /\ inbox' = EmitSocket(inbox, s, <<"left_room", p>>)
  /\ proc' = [proc EXCEPT ![p] = [Idle EXCEPT !.kind = "leaveRoom", !.pc = "done",
                 !.user = sessUser[s], !.sess = s, !.room = r, !.result = "left"]]
  /\ UNCHANGED <<sub, messageCount, messages, conn, sessUser, pendingJoin,
                 connectedUsers, handshake, limVars, chatRoom, owners>>

LeaveRoom(p, s, r) ==
  /\ FreeSlot(p) /\ conn[s] = "open"
  /\ subs' = [subs EXCEPT ![s] = @ \ {r}]
  /\ inbox' = EmitSocket(inbox, s, <<"left_room", p>>)
  /\ proc' = [proc EXCEPT ![p] = [Idle EXCEPT !.kind = "leaveRoom", !.pc = "done",
                 !.user = sessUser[s], !.sess = s, !.room = r, !.result = "left"]]
  /\ UNCHANGED <<dbVars, conn, sessUser, pendingJoin, connectedUsers, handshake, limVars>>

(* ---- socket.on('send_message') and POST /:chatRoomId/messages ---- *)
StartLiveSend(p, s, r, ai) ==
  /\ FreeSlot(p) /\ conn[s] = "open"
  /\ proc' = [proc EXCEPT ![p] = [Idle EXCEPT !.kind = "liveSend", !.pc = "member",
                 !.user = sessUser[s], !.sess = s, !.room = r, !.ai = ai]]
  /\ UNCHANGED <<dbVars, sockVars, inbox, limVars>>

StartHttpSend(p, u, r) ==
  /\ FreeSlot(p)
  /\ proc' = [proc EXCEPT ![p] = [Idle EXCEPT !.kind = "httpSend", !.pc = "member",
                 !.user = u, !.room = r]]
  /\ UNCHANGED <<dbVars, sockVars, inbox, limVars>>

\* The membership check, then prisma.message.create of the user's message.
LiveSendCreate(p) ==
  LET f == proc[p] IN
  /\ f.kind = "liveSend" /\ f.pc = "checked"
  /\ IF ~f.mem
     THEN /\ inbox' = EmitSocket(inbox, f.sess, <<"error", p>>)
          /\ Finish(p, [f EXCEPT !.result = "Forbidden"])
          /\ UNCHANGED messages
     ELSE \E ok \in BOOLEAN :
          IF ok
          THEN /\ messages' = Append(messages, NewMessage("USER", f.user, f.room, p))
               /\ Goto(p, [f EXCEPT !.umsg = Len(messages) + 1], "bcast")
               /\ UNCHANGED inbox
          ELSE /\ inbox' = EmitSocket(inbox, f.sess, <<"error", p>>)
               /\ Finish(p, [f EXCEPT !.result = "Error"])
               /\ UNCHANGED messages
  /\ UNCHANGED <<member, sub, messageCount, sockVars, limVars, roomVars>>

\* io.to(chatRoomId).emit('new_message'), then the chatRoom read that decides
\* whether the assistant answers (allowAI and an '@ai' mention).
LiveSendBroadcast(p) ==
  LET f == proc[p] IN
  /\ f.kind = "liveSend" /\ f.pc = "bcast"
  /\ \E ok \in BOOLEAN :
       IF ~ok
       THEN /\ inbox' = EmitSocket(EmitRoom(inbox, f.room, <<"new_message", f.umsg>>),
                                    f.sess, <<"error", p>>)
            /\ Finish(p, [f EXCEPT !.result = "Error", !.ubcast = TRUE])
       ELSE /\ inbox' = EmitRoom(inbox, f.room, <<"new_message", f.umsg>>)
            /\ IF allowAI[f.room] /\ f.ai
               THEN Goto(p, [f EXCEPT !.result = "sent", !.ubcast = TRUE], "quota")
               ELSE Finish(p, [f EXCEPT !.result = "sent", !.ubcast = TRUE])
  /\ UNCHANGED <<dbVars, sockVars, limVars>>

\* The HTTP route: membership check, create, 201.  It emits nothing.
HttpSendCreate(p) ==
  LET f == proc[p] IN
  /\ f.kind = "httpSend" /\ f.pc = "checked"
  /\ IF ~f.mem
     THEN /\ Finish(p, [f EXCEPT !.result = "Forbidden", !.status = 404])
          /\ UNCHANGED messages
     ELSE \E ok \in BOOLEAN :
          IF ok
          THEN /\ messages' = Append(messages, NewMessage("USER", f.user, f.room, p))
               /\ Finish(p, [f EXCEPT !.umsg = Len(messages) + 1, !.result = "sent",
                                !.status = 201])
          ELSE /\ Finish(p, [f EXCEPT !.result = "Error", !.status = 500])
               /\ UNCHANGED messages
  /\ UNCHANGED <<member, sub, messageCount, sockVars, inbox, limVars, roomVars>>

\* sendMessageValidator: body('content').isLength({ min: 1, max: 4000 }).
MinContentLength == 1
MaxContentLength == 4000
ValidContent(len) == len >= MinContentLength /\ len <= MaxContentLength

\* The content lengths a client sends: empty, the shortest and the longest the
\* validator lets through, and one character more.
ContentLengths == {0, MinContentLength, MaxContentLength, MaxContentLength + 1}
ContentClass(len) == IF len = 0 THEN "empty" ELSE IF ValidContent(len) THEN "ok" ELSE "long"

\* send_message with a content of that length: the handler does not look at
\* the content before the membership read.
StartLiveSendContent(p, s, r, len) ==
  /\ FreeSlot(p) /\ conn[s] = "open"
  /\ proc' = [proc EXCEPT ![p] = [Idle EXCEPT !.kind = "liveSend", !.pc = "member",
                 !.user = sessUser[s], !.sess = s, !.room = r,
                 !.content = ContentClass(len)]]
  /\ UNCHANGED <<dbVars, sockVars, inbox, limVars>>

\* POST /:chatRoomId/messages with a content of that length: validationResult
\* is tested first and answers 400 before anything is read.
StartHttpSendContent(p, u, r, len) ==
  /\ FreeSlot(p)
  /\ IF ValidContent(len)
     THEN proc' = [proc EXCEPT ![p] = [Idle EXCEPT !.kind = "httpSend", !.pc = "member",
                      !.user = u, !.room = r, !.content = ContentClass(len)]]
     ELSE proc' = [proc EXCEPT ![p] = [Idle EXCEPT !.kind = "httpSend", !.pc = "done",
                      !.user = u, !.room = r, !.content = ContentClass(len),
                      !.result = "InvalidArgument", !.status = 400]]
  /\ UNCHANGED <<dbVars, sockVars, inbox, limVars>>

(* ---- GeminiService.checkUsageQuota / incrementUsage ---- *)
Max(a, b) == IF a >= b THEN a ELSE b

\* A quota check that lets the invocation through when it has no row to go by.
CheckUsageQuotaFailOpen(u, ok) ==
  IF ok /\ sub[u].exists
  THEN [canUse |-> sub[u].limit - sub[u].used > 0,
        remaining |-> Max(0, sub[u].limit - sub[u].used)]
  ELSE [canUse |-> TRUE, remaining |-> 1]

\* The result of checkUsageQuota from the row it read; a user without a
\* subscription row, and a rejected read (caught inside it), answer
\* { canUse: false, remaining: 0 }.
CheckUsageQuota(u, ok) ==
  IF ok /\ sub[u].exists
  THEN [canUse |-> sub[u].limit - sub[u].used > 0,
        remaining |-> Max(0, sub[u].limit - sub[u].used)]
  ELSE [canUse |-> FALSE, remaining |-> 0]

\* What the read of that check came back with.
QuotaRead(u, ok) == IF ~ok THEN "unreadable" ELSE IF ~sub[u].exists THEN "norow" ELSE "read"

(* ---- GeminiService.generateResponse / generateChatResponse: the prompt ---- *)
\* A prompt is the sequence of its lines; a line is "<role>: <content>", or the
\* bare content when role is "".
UserMessage == "m"
Persona == "You are a helpful AI assistant in a chat room. Be concise and friendly."
Turns == [role : {"user", "assistant"}, content : {"a"}]
Contexts ==
  {NoContext} \cup
    {[given |-> TRUE, turns |-> t] : t \in UNION {[1..n -> Turns] : n \in 0..MaxCtx}}

\* fullPrompt: `${systemPrompt}\n\nUser: ${prompt}` when a systemPrompt is
\* passed (prompt is then the bare user message), else the prompt as it is.
GenerateResponse(prompt, systemPrompt) ==
  IF systemPrompt # ""
  THEN <<[role |-> "", content |-> systemPrompt], [role |-> "User", content |-> prompt]>>
  ELSE prompt

\* messages.filter(msg => msg.role === 'user').pop()?.content || ''
RECURSIVE LastUserMessage(_)
LastUserMessage(msgs) ==
  IF msgs = <<>> THEN ""
  ELSE IF msgs[Len(msgs)].role = "user" THEN msgs[Len(msgs)].content
  ELSE LastUserMessage(SubSeq(msgs, 1, Len(msgs) - 1))

\* conversationHistory (one line per message), then `\nUser: ${lastUserMessage}`.
GenerateChatResponse(msgs) ==
  LET conversationHistory ==
        [i \in 1..Len(msgs) |->
           [role |-> IF msgs[i].role = "user" THEN "User" ELSE "Assistant",
            content |-> msgs[i].content]]
  IN GenerateResponse(
       Append(conversationHistory, [role |-> "User", content |-> LastUserMessage(msgs)]), "")

\* The branch each transport takes: the route tests `context &&
\* Array.isArray(context)`, handleAIResponse tests `context && context.length > 0`.
UsesContext(f) ==
  IF f.kind = "httpAI" THEN f.ctx.given ELSE f.ctx.given /\ Len(f.ctx.turns) > 0

\* What the invocation hands to generateContent.
Prompt(f) ==
  IF UsesContext(f)
  THEN GenerateChatResponse(Append(f.ctx.turns, [role |-> "user", content |-> UserMessage]))
  ELSE GenerateResponse(UserMessage, Persona)

(* ---- the assistant invocation: handleAIResponse and POST /:chatRoomId/ai-chat ---- *)
StartLiveAI(p, s, r) ==
  /\ FreeSlot(p) /\ conn[s] = "open"
  /\ proc' = [proc EXCEPT ![p] = [Idle EXCEPT !.kind = "liveAI", !.pc = "quota",
                 !.user = sessUser[s], !.sess = s, !.room = r]]
  /\ UNCHANGED <<dbVars, sockVars, inbox, limVars>>

StartHttpAI(p, u, r) ==
  /\ FreeSlot(p)
  /\ proc' = [proc EXCEPT ![p] = [Idle EXCEPT !.kind = "httpAI", !.pc = "member",
                 !.user = u, !.room = r]]
  /\ UNCHANGED <<dbVars, sockVars, inbox, limVars>>

\* The same two entry points with the `context` the client sent.
StartLiveAIContext(p, s, r, c) ==
  /\ FreeSlot(p) /\ conn[s] = "open"
  /\ proc' = [proc EXCEPT ![p] = [Idle EXCEPT !.kind = "liveAI", !.pc = "quota",
                 !.user = sessUser[s], !.sess = s, !.room = r, !.ctx = c]]
  /\ UNCHANGED <<dbVars, sockVars, inbox, limVars>>

StartHttpAIContext(p, u, r, c) ==
  /\ FreeSlot(p)
  /\ proc' = [proc EXCEPT ![p] = [Idle EXCEPT !.kind = "httpAI", !.pc = "member",
                 !.user = u, !.room = r, !.ctx = c]]
  /\ UNCHANGED <<dbVars, sockVars, inbox, limVars>>

\* HTTP only: 404 for a non-member, 403 when the room has allowAI off, else the
\* quota read.
HttpAICheck(p) ==
  LET f == proc[p] IN
  /\ f.kind = "httpAI" /\ f.pc = "checked"
  /\ IF ~f.mem
     THEN Finish(p, [f EXCEPT !.aiResult = "Forbidden", !.status = 404])
     ELSE IF ~allowAI[f.room]
     THEN Finish(p, [f EXCEPT !.aiResult = "AssistantDisabled", !.status = 403])
     ELSE \E ok \in BOOLEAN :
          LET q == CheckUsageQuota(f.user, ok) IN
          Goto(p, [f EXCEPT !.canUse = q.canUse, !.remaining = q.remaining,
                            !.quota = QuotaRead(f.user, ok)], "gen")
  /\ UNCHANGED <<dbVars, sockVars, inbox, limVars>>

\* Live: handleAIResponse starts with the quota read, whoever calls it.
LiveReadQuota(p) ==
  LET f == proc[p] IN
  /\ f.kind \in {"liveAI", "liveSend"} /\ f.pc = "quota"
  /\ \E ok \in BOOLEAN :
       LET q == CheckUsageQuota(f.user, ok) IN
       Goto(p, [f EXCEPT !.canUse = q.canUse, !.remaining = q.remaining,
                            !.quota = QuotaRead(f.user, ok)], "gen")
  /\ UNCHANGED <<dbVars, sockVars, inbox, limVars>>

\* How an invocation ends when it is refused or throws: the live handler emits
\* ai_error to the room, the route answers with a status.
AiEnd(p, f, res, code, at) ==
  /\ Finish(p, [f EXCEPT !.aiResult = res, !.failedAt = at,
                         !.status = IF f.kind = "httpAI" THEN code ELSE 0])
  /\ inbox' = IF f.kind = "httpAI" THEN inbox
              ELSE EmitRoom(inbox, f.room, <<"ai_error", p>>)

\* The canUse test, then the call of the generation provider.
Generate(p) ==
  LET f == proc[p] IN
  /\ f.pc = "gen"
  /\ IF ~f.canUse
     THEN AiEnd(p, f, "QuotaExceeded", 429, "")
     ELSE \E ok \in BOOLEAN :
          IF ok
          THEN /\ Goto(p, [f EXCEPT !.called = TRUE, !.prompt = Prompt(f)], "aicreate")
               /\ UNCHANGED inbox
          ELSE AiEnd(p, [f EXCEPT !.called = TRUE, !.prompt = Prompt(f)],
                     "GenerationFailed", 500, "provider")
  /\ UNCHANGED <<dbVars, sockVars, limVars>>

\* The provider never answers: generateContent is awaited with no timeout, so
\* the invocation stays at that await.
ProviderStalls(p) ==
  LET f == proc[p] IN
  /\ f.pc = "gen" /\ f.canUse
  /\ Goto(p, [f EXCEPT !.called = TRUE, !.prompt = Prompt(f)], "stalled")
  /\ UNCHANGED <<dbVars, sockVars, inbox, limVars>>

\* prisma.message.create of the assistant's message.
AiCreate(p) ==
  LET f == proc[p] IN
  /\ f.pc = "aicreate"
  /\ \E ok \in BOOLEAN :
       IF ok
       THEN /\ messages' = Append(messages, NewMessage("AI", NoUser, f.room, p))
            /\ Goto(p, [f EXCEPT !.amsg = Len(messages) + 1], "incSub")
            /\ UNCHANGED inbox
       ELSE AiEnd(p, f, "GenerationFailed", 500, "create") /\ UNCHANGED messages
  /\ UNCHANGED <<member, sub, messageCount, sockVars, limVars, roomVars>>

\* incrementUsage, first write: subscription.messagesUsed += 1.
IncrementSubscription(p) ==
  LET f == proc[p] IN
  /\ f.pc = "incSub"
  /\ \E ok \in BOOLEAN :
       IF ok /\ sub[f.user].exists
       THEN /\ sub' = [sub EXCEPT ![f.user].used = @ + 1]
            /\ Goto(p, [f EXCEPT !.incSub = TRUE], "incUser")
            /\ UNCHANGED inbox
       ELSE AiEnd(p, f, "GenerationFailed", 500, "incSub") /\ UNCHANGED sub
  /\ UNCHANGED <<member, messageCount, messages, sockVars, limVars, roomVars>>

\* A route that answers with the remaining it read, without subtracting one.
IncrementUserStale(p) ==
  LET f == proc[p] IN
  /\ f.pc = "incUser"
  /\ \E ok \in BOOLEAN :
       IF ok
       THEN /\ messageCount' = [messageCount EXCEPT ![f.user] = @ + 1]
            /\ IF f.kind = "httpAI"
               THEN Finish(p, [f EXCEPT !.incUser = TRUE, !.aiResult = "ok",
                                !.status = 200, !.respRemaining = f.remaining])
               ELSE Goto(p, [f EXCEPT !.incUser = TRUE], "aibcast")
            /\ UNCHANGED inbox
       ELSE AiEnd(p, f, "GenerationFailed", 500, "incUser") /\ UNCHANGED messageCount
  /\ UNCHANGED <<member, sub, messages, sockVars, limVars, roomVars>>

\* incrementUsage, second write: user.messageCount += 1; the route then answers
\* 200 with remaining = quota.remaining - 1.
IncrementUser(p) ==
  LET f == proc[p] IN
  /\ f.pc = "incUser"
  /\ \E ok \in BOOLEAN :
       IF ok
       THEN /\ messageCount' = [messageCount EXCEPT ![f.user] = @ + 1]
            /\ IF f.kind = "httpAI"
               THEN Finish(p, [f EXCEPT !.incUser = TRUE, !.aiResult = "ok",
                                !.status = 200, !.respRemaining = f.remaining - 1])
               ELSE Goto(p, [f EXCEPT !.incUser = TRUE], "aibcast")
            /\ UNCHANGED inbox
       ELSE AiEnd(p, f, "GenerationFailed", 500, "incUser") /\ UNCHANGED messageCount
  /\ UNCHANGED <<member, sub, messages, sockVars, limVars, roomVars>>

\* handleAIResponse, last: io.to(chatRoomId).emit('new_message').
AiBroadcast(p) ==
  LET f == proc[p] IN
  /\ f.pc = "aibcast"
  /\ inbox' = EmitRoom(inbox, f.room, <<"new_message", f.amsg>>)
  /\ Finish(p, [f EXCEPT !.aiResult = "ok", !.abcast = TRUE])
  /\ UNCHANGED <<dbVars, sockVars, limVars>>

(* ---- writers of the Subscription row outside the chat paths ---- *)
\* POST /users/:userId/reset-usage and handlePaymentSucceeded: messagesUsed = 0.
ResetUsage(u) ==
  /\ sub' = [sub EXCEPT ![u].used = 0]
  /\ UNCHANGED <<member, messageCount, messages, sockVars, inbox, proc, limVars, roomVars>>

\* GeminiService.resetMonthlyUsage: messagesUsed = 0 on every row.
ResetMonthlyUsage ==
  /\ sub' = [u \in Users |-> [sub[u] EXCEPT !.used = 0]]
  /\ UNCHANGED <<member, messageCount, messages, sockVars, inbox, proc, limVars, roomVars>>

\* handleCheckoutCompleted / handleSubscriptionDeleted: a new limit, messagesUsed = 0.
ChangePlan(u, l) ==
  /\ sub' = [sub EXCEPT ![u] = [@ EXCEPT !.limit = l, !.used = 0]]
  /\ UNCHANGED <<member, messageCount, messages, sockVars, inbox, proc, limVars, roomVars>>

(* ---- socket.on('typing_start') / socket.on('typing_stop'): no await, one step ---- *)
TypingEvents == {"user_typing", "user_stop_typing"}

Typing(p, s, r, ev) ==
  /\ FreeSlot(p) /\ conn[s] = "open"
  /\ inbox' = EmitOthers(inbox, s, r, <<ev, p>>)
  /\ proc' = [proc EXCEPT ![p] = [Idle EXCEPT !.kind = "typing", !.pc = "done",
                 !.user = sessUser[s], !.sess = s, !.room = r, !.result = ev]]
  /\ UNCHANGED <<dbVars, sockVars, limVars>>

(* ---- routes/chat: POST / (create), POST /:chatRoomId/join, POST /:chatRoomId/leave ---- *)
RoomTypes == {"PRIVATE", "PUBLIC", "GROUP"}

\* _count.members of a room.
MemberCount(r) == Cardinality({u \in Accounts : <<u, r>> \in member})

\* POST /: one nested create writes the ChatRoom row and the creator's
\* ChatRoomMember row with role OWNER; a rejected create is a 500.
CreateRoom(p, u, t) ==
  /\ FreeSlot(p) /\ ~chatRoom[NewRoom].exists
  /\ \E ok \in BOOLEAN :
       IF ok
       THEN /\ chatRoom' = [chatRoom EXCEPT ![NewRoom] =
                 [exists |-> TRUE, type |-> t, maxMembers |-> RoomSize, createdBy |-> u]]
            /\ member' = member \cup {<<u, NewRoom>>}
            /\ owners' = owners \cup {<<u, NewRoom>>}
            /\ memberRows' = [memberRows EXCEPT ![<<u, NewRoom>>] = @ + 1]
            /\ proc' = [proc EXCEPT ![p] = [Idle EXCEPT !.kind = "createRoom", !.pc = "done",
                          !.user = u, !.room = NewRoom, !.result = "created", !.status = 201]]
       ELSE /\ proc' = [proc EXCEPT ![p] = [Idle EXCEPT !.kind = "createRoom", !.pc = "done",
                          !.user = u, !.room = NewRoom, !.result = "Error", !.status = 500]]
            /\ UNCHANGED <<chatRoom, member, owners, memberRows>>
  /\ UNCHANGED <<sub, messageCount, messages, sockVars, inbox, limVars>>

StartHttpJoin(p, u, r) ==
  /\ FreeSlot(p)
  /\ proc' = [proc EXCEPT ![p] = [Idle EXCEPT !.kind = "httpJoin", !.pc = "room",
                 !.user = u, !.room = r]]
  /\ UNCHANGED <<dbVars, sockVars, inbox, limVars>>

\* chatRoom.findUnique with its member count: 404 without a row, 403 for a
\* private room or a full one, else the membership read.
HttpJoinReadRoom(p) ==
  LET f == proc[p] IN
  /\ f.kind = "httpJoin" /\ f.pc = "room"
  /\ \E ok \in BOOLEAN :
       IF ~ok THEN Finish(p, [f EXCEPT !.result = "Error", !.status = 500])
       ELSE IF ~chatRoom[f.room].exists
       THEN Finish(p, [f EXCEPT !.result = "NotFound", !.status = 404])
       ELSE IF chatRoom[f.room].type = "PRIVATE"
       THEN Finish(p, [f EXCEPT !.result = "PrivateRoom", !.status = 403])
       ELSE IF MemberCount(f.room) >= chatRoom[f.room].maxMembers
       THEN Finish(p, [f EXCEPT !.result = "RoomFull", !.status = 403])
       ELSE Goto(p, f, "member")
  /\ UNCHANGED <<dbVars, sockVars, inbox, limVars>>

\* A join whose create is not held back by a unique index.
HttpJoinCreateNoUnique(p) ==
  LET f == proc[p] IN
  /\ f.kind = "httpJoin" /\ f.pc = "checked"
  /\ IF f.mem
     THEN /\ Finish(p, [f EXCEPT !.result = "AlreadyMember", !.status = 400])
          /\ UNCHANGED <<member, memberRows>>
     ELSE \E ok \in BOOLEAN :
          IF ok
          THEN /\ member' = member \cup {<<f.user, f.room>>}
               /\ memberRows' = [memberRows EXCEPT ![<<f.user, f.room>>] = @ + 1]
               /\ Finish(p, [f EXCEPT !.result = "joined", !.status = 200])
          ELSE /\ Finish(p, [f EXCEPT !.result = "Error", !.status = 500])
               /\ UNCHANGED <<member, memberRows>>
  /\ UNCHANGED <<sub, messageCount, messages, sockVars, inbox, limVars, chatRoom, owners>>

\* 400 for an existing membership, else chatRoomMember.create with role MEMBER;
\* the create is rejected when the row exists by now (@@unique([userId, chatRoomId])).
HttpJoinCreate(p) ==
  LET f == proc[p] IN
  /\ f.kind = "httpJoin" /\ f.pc = "checked"
  /\ IF f.mem
     THEN /\ Finish(p, [f EXCEPT !.result = "AlreadyMember", !.status = 400])
          /\ UNCHANGED <<member, memberRows>>
     ELSE \E ok \in BOOLEAN :
          IF ok /\ memberRows[<<f.user, f.room>>] = 0
          THEN /\ member' = member \cup {<<f.user, f.room>>}
               /\ memberRows' = [memberRows EXCEPT ![<<f.user, f.room>>] = @ + 1]
               /\ Finish(p, [f EXCEPT !.result = "joined", !.status = 200])
          ELSE /\ Finish(p, [f EXCEPT !.result = "Error", !.status = 500])
               /\ UNCHANGED <<member, memberRows>>
  /\ UNCHANGED <<sub, messageCount, messages, sockVars, inbox, limVars, chatRoom, owners>>

StartHttpLeave(p, u, r) ==
  /\ FreeSlot(p)
  /\ proc' = [proc EXCEPT ![p] = [Idle EXCEPT !.kind = "httpLeave", !.pc = "member",
                 !.user = u, !.room = r]]
  /\ UNCHANGED <<dbVars, sockVars, inbox, limVars>>

\* A leave that does not look at the role of the membership.
HttpLeaveDeleteAnyRole(p) ==
  LET f == proc[p] IN
  /\ f.kind = "httpLeave" /\ f.pc = "checked"
  /\ IF ~f.mem
     THEN /\ Finish(p, [f EXCEPT !.result = "NotMember", !.status = 404])
          /\ UNCHANGED <<member, owners, memberRows>>
     ELSE \E ok \in BOOLEAN :
          IF ok /\ <<f.user, f.room>> \in member
          THEN /\ memberRows' = [memberRows EXCEPT ![<<f.user, f.room>>] = @ - 1]
               /\ member' = {k \in member : memberRows'[k] > 0}
               /\ owners' = {k \in owners : memberRows'[k] > 0}
               /\ Finish(p, [f EXCEPT !.result = "left", !.status = 200])
          ELSE /\ Finish(p, [f EXCEPT !.result = "Error", !.status = 500])
               /\ UNCHANGED <<member, owners, memberRows>>
  /\ UNCHANGED <<sub, messageCount, messages, sockVars, inbox, limVars, chatRoom>>

\* 404 without a membership, 400 for the OWNER, else chatRoomMember.delete of
\* the row that was read (rejected when it is gone by now).  The sockets of the
\* user are not touched.
HttpLeaveDelete(p) ==
  LET f == proc[p] IN
  /\ f.kind = "httpLeave" /\ f.pc = "checked"
  /\ IF ~f.mem
     THEN /\ Finish(p, [f EXCEPT !.result = "NotMember", !.status = 404])
          /\ UNCHANGED <<member, owners, memberRows>>
     ELSE IF f.role = "OWNER"
     THEN /\ Finish(p, [f EXCEPT !.result = "OwnerCannotLeave", !.status = 400])
          /\ UNCHANGED <<member, owners, memberRows>>
     ELSE \E ok \in BOOLEAN :
          IF ok /\ <<f.user, f.room>> \in member
          THEN /\ memberRows' = [memberRows EXCEPT ![<<f.user, f.room>>] = @ - 1]
               /\ member' = {k \in member : memberRows'[k] > 0}
               /\ owners' = {k \in owners : memberRows'[k] > 0}
               /\ Finish(p, [f EXCEPT !.result = "left", !.status = 200])
          ELSE /\ Finish(p, [f EXCEPT !.result = "Error", !.status = 500])
               /\ UNCHANGED <<member, owners, memberRows>>
  /\ UNCHANGED <<sub, messageCount, messages, sockVars, inbox, limVars, chatRoom>>

(* ---- middleware/rateLimiter: rateLimiter (Redis store) and aiChatLimiter ---- *)
\* keyGenerator: `rate_limit:${req.ip}:auth` for a request with an authorization
\* header (u is the user of its token), `rate_limit:${req.ip}` for one without.
KeyGenerator(ip, u) == [ip |-> ip, auth |-> u # NoUser]

\* max of rateLimiter: the premium ceiling for a request that carries a token.
GeneralMax(u) == IF u # NoUser THEN PremiumMax ELSE BaseMax

\* aiChatLimiter has no keyGenerator: the library's default key, req.ip.
AiKey(ip) == [ip |-> ip, auth |-> FALSE]

\* The length of the window each limiter is configured with.
Window(l) == IF l = "general" THEN windowMs ELSE AiWindowTicks

\* The window of a key counted from its first hit: this hit's place in it.
RefHit(l, k) == [ref[l][k] EXCEPT !.count = @ + 1]

FreeReq(q) == req[q].pc = "idle" /\ \A o \in Reqs : o < q => req[o].pc # "idle"

\* A request reaches app.use(rateLimiter): the key is generated and
\* store.incr is called.
Request(q, ip, u, path) ==
  /\ FreeReq(q)
  /\ req' = [req EXCEPT ![q] = [IdleReq EXCEPT !.pc = "incr", !.ip = ip, !.user = u,
                 !.path = path, !.key = KeyGenerator(ip, u)]]
  /\ UNCHANGED <<dbVars, sockVars, inbox, proc, store, windowMs, ref>>

\* What the library does with the totalHits the store returned: 429 above
\* max, else next(); for ai-chat the route's own middleware follows.
Decide(f) ==
  IF f.totalHits > GeneralMax(f.user)
  THEN [f EXCEPT !.pc = "done", !.general = "limited", !.status = 429]
  ELSE [f EXCEPT !.general = "allowed",
                 !.pc = IF f.path = "aiChat" THEN "ai" ELSE "done"]

\* An incr whose caller is handed the count from before its own increment.
RedisGetThenIncr(q) ==
  LET f == req[q]
      n == store["general"][f.key].hits
      g == [f EXCEPT !.totalHits = n, !.nth = RefHit("general", f.key).count,
                     !.resetIn = ExpireTicks]
  IN
  /\ f.pc = "incr"
  /\ store' = [store EXCEPT !["general"][f.key].hits = n + 1]
  /\ ref' = [ref EXCEPT !["general"][f.key] = RefHit("general", f.key)]
  /\ req' = [req EXCEPT ![q] = IF n = 0 THEN [g EXCEPT !.pc = "expire"] ELSE Decide(g)]
  /\ UNCHANGED <<dbVars, sockVars, inbox, proc, windowMs>>

\* await redis.incr(key): the key's counter goes up by one (a key that did not
\* exist is created, without expiry) and its new value is returned, with
\* resetTime = now + 900000 (resetIn: how far ahead of the hit that is); a
\* rejected call is the request's error.
RedisIncr(q) ==
  LET f == req[q]
      n == store["general"][f.key].hits + 1
      g == [f EXCEPT !.totalHits = n, !.nth = RefHit("general", f.key).count,
                     !.resetIn = ExpireTicks]
  IN
  /\ f.pc = "incr"
  /\ \E ok \in BOOLEAN :
       IF ok
       THEN /\ store' = [store EXCEPT !["general"][f.key].hits = n]
            /\ ref' = [ref EXCEPT !["general"][f.key] = RefHit("general", f.key)]
            /\ req' = [req EXCEPT ![q] =
                         IF n = 1 THEN [g EXCEPT !.pc = "expire"] ELSE Decide(g)]
       ELSE /\ req' = [req EXCEPT ![q] =
                         [f EXCEPT !.pc = "done", !.general = "error", !.status = 500]]
            /\ UNCHANGED <<store, ref>>
  /\ UNCHANGED <<dbVars, sockVars, inbox, proc, windowMs>>

\* result === 1: await redis.expire(key, 900); a rejected call is the
\* request's error and leaves the key without expiry.
RedisExpire(q) ==
  LET f == req[q] IN
  /\ f.pc = "expire"
  /\ \E ok \in BOOLEAN :
       IF ok
       THEN /\ store' = [store EXCEPT !["general"][f.key].ttl = ExpireTicks]
            /\ req' = [req EXCEPT ![q] = Decide(f)]
       ELSE /\ req' = [req EXCEPT ![q] =
                         [f EXCEPT !.pc = "done", !.general = "error", !.status = 500]]
            /\ UNCHANGED store
  /\ UNCHANGED <<dbVars, sockVars, inbox, proc, windowMs, ref>>

\* router.use(authenticateToken), then aiChatLimiter on the ai-chat route: 401
\* without a verifiable token of an ACTIVE user row, else the in-memory counter of req.ip goes
\* up by one (a new key gets the window's expiry) and is compared with max.
AiChatLimiter(q) ==
  LET f == req[q]
      k == AiKey(f.ip)
      n == store["ai"][k].hits + 1
  IN
  /\ f.pc = "ai"
  /\ \E ok \in BOOLEAN :
       IF ~FindActiveUser(f.user) \/ ~ok
       THEN /\ req' = [req EXCEPT ![q] = [f EXCEPT !.pc = "done", !.status = 401]]
            /\ UNCHANGED <<store, ref>>
       ELSE /\ store' = [store EXCEPT !["ai"][k] =
                           [hits |-> n, ttl |-> IF n = 1 THEN AiWindowTicks ELSE @.ttl]]
            /\ ref' = [ref EXCEPT !["ai"][k] = RefHit("ai", k)]
            /\ req' = [req EXCEPT ![q] =
                         [f EXCEPT !.pc = "done", !.aiHits = n,
                                   !.aiNth = RefHit("ai", k).count,
                                   !.ai = IF n > AiMax THEN "limited" ELSE "allowed",
                                   !.status = IF n > AiMax THEN 429 ELSE 0]]
  /\ UNCHANGED <<dbVars, sockVars, inbox, proc, windowMs>>

\* Time passes, one tick (far longer than a store round trip): a key whose
\* expiry is reached is gone; the window counted from the first hit is over
\* once it is as old as the limiter's window.
Tick ==
  /\ \A q \in Reqs : req[q].pc # "expire"
  /\ \E l \in Limiters, k \in Keys : store[l][k].hits > 0
  /\ store' = [l \in Limiters |-> [k \in Keys |->
        IF store[l][k].ttl = NoTtl THEN store[l][k]
        ELSE IF store[l][k].ttl = 1 THEN [hits |-> 0, ttl |-> NoTtl]
        ELSE [store[l][k] EXCEPT !.ttl = @ - 1]]]
  /\ ref' = [l \in Limiters |-> [k \in Keys |->
        IF ref[l][k].count = 0 \/ ref[l][k].age + 1 >= Window(l)
        THEN [count |-> 0, age |-> 0]
        ELSE [ref[l][k] EXCEPT !.age = @ + 1]]]
  /\ UNCHANGED <<dbVars, sockVars, inbox, proc, req, windowMs>>

(* ---- the system ---- *)
\* A client sends an event or a request and its handler starts.
Starts ==
  \/ \E p \in Procs, s \in Sessions, r \in Rooms : StartJoinRoom(p, s, r)
  \/ \E p \in Procs, s \in Sessions, r \in Rooms : LeaveRoom(p, s, r)
  \/ \E p \in Procs, s \in Sessions, r \in Rooms, ai \in BOOLEAN : StartLiveSend(p, s, r, ai)
  \/ \E p \in Procs, u \in Users, r \in Rooms : StartHttpSend(p, u, r)
  \/ \E p \in Procs, s \in Sessions, r \in Rooms : StartLiveAI(p, s, r)
  \/ \E p \in Procs, u \in Users, r \in Rooms : StartHttpAI(p, u, r)

\* A handler that was waiting on an await goes on.
Steps ==
  \/ \E p \in Procs : ReadMembership(p)
  \/ \E p \in Procs : JoinRoom(p)
  \/ \E p \in Procs : LiveSendCreate(p)
  \/ \E p \in Procs : LiveSendBroadcast(p)
  \/ \E p \in Procs : HttpSendCreate(p)
  \/ \E p \in Procs : HttpAICheck(p)
  \/ \E p \in Procs : LiveReadQuota(p)
  \/ \E p \in Procs : Generate(p)
  \/ \E p \in Procs : AiCreate(p)
  \/ \E p \in Procs : IncrementSubscription(p)
  \/ \E p \in Procs : IncrementUser(p)
  \/ \E p \in Procs : AiBroadcast(p)

Handlers == Starts \/ Steps

Next == Handlers

\* The chat of connected sockets and HTTP clients.
Spec == Init /\ [][Next]_vars

\* The same with the billing side writing the Subscription rows.
NextBilling ==
  \/ Handlers
  \/ \E u \in Users : ResetUsage(u)
  \/ ResetMonthlyUsage
  \/ \E u \in Users, l \in 1..MaxLimit : ChangePlan(u, l)

SpecBilling == Init /\ [][NextBilling]_vars

\* One handler at a time: an event or request is taken up only when the one
\* before it has finished.
InFlight(pr) == {p \in Procs : pr[p].pc \notin {"idle", "done"}}

NextSeq ==
  \/ InFlight(proc) = {} /\ Starts
  \/ Steps

SpecSeq == Init /\ [][NextSeq]_vars

\* The chat without the assistant: joining, leaving and sending, with no
\* message that mentions '@ai'.
NextRooms ==
  \/ \E p \in Procs, s \in Sessions, r \in Rooms : StartJoinRoom(p, s, r)
  \/ \E p \in Procs, s \in Sessions, r \in Rooms : LeaveRoom(p, s, r)
  \/ \E p \in Procs, s \in Sessions, r \in Rooms : StartLiveSend(p, s, r, FALSE)
  \/ \E p \in Procs, u \in Users, r \in Rooms : StartHttpSend(p, u, r)
  \/ \E p \in Procs : ReadMembership(p)
  \/ \E p \in Procs : JoinRoom(p)
  \/ \E p \in Procs : LiveSendCreate(p)
  \/ \E p \in Procs : LiveSendBroadcast(p)
  \/ \E p \in Procs : HttpSendCreate(p)

InitRooms == InitRows(MaxLimit) /\ Online /\ LimiterDefault

SpecRooms == InitRooms /\ [][NextRooms]_vars

\* Sockets that come and go while the rooms are used: connects, disconnects,
\* join_room, leave_room and send_message.
NextConn ==
  \/ \E s \in Sessions, u \in Users : Connect(s, u)
  \/ \E s \in Sessions : JoinUserChatRooms(s)
  \/ \E s \in Sessions : Disconnect(s)
  \/ \E p \in Procs, s \in Sessions, r \in Rooms : StartJoinRoom(p, s, r)
  \/ \E p \in Procs, s \in Sessions, r \in Rooms : LeaveRoom(p, s, r)
  \/ \E p \in Procs, s \in Sessions, r \in Rooms : StartLiveSend(p, s, r, FALSE)
  \/ \E p \in Procs : ReadMembership(p)
  \/ \E p \in Procs : JoinRoom(p)
  \/ \E p \in Procs : LiveSendCreate(p)
  \/ \E p \in Procs : LiveSendBroadcast(p)

SpecConn == InitBoot /\ [][NextConn]_vars

\* The handshakes alone: sockets arrive with any token, are authenticated or
\* rejected, get their rooms back and go.
NextHandshake ==
  \/ \E s \in Sessions, tok \in Tokens : Handshake(s, tok)
  \/ \E s \in Sessions : Authenticate(s)
  \/ \E s \in Sessions : JoinUserChatRooms(s)
  \/ \E s \in Sessions : Disconnect(s)

SpecHandshake == InitBoot /\ [][NextHandshake]_vars

\* The same with the clients of accepted sockets sending leave_room.
NextGate ==
  \/ NextHandshake
  \/ \E p \in Procs, s \in Sessions, r \in Rooms : LeaveRoom(p, s, r)

SpecGate == InitBoot /\ [][NextGate]_vars

\* joinUserChatRooms is not awaited by the 'connection' handler, but its
\* findMany does return or reject.
SpecHandshakeFair ==
  SpecHandshake /\ \A s \in Sessions : WF_vars(JoinUserChatRooms(s))

\* HTTP requests from one address through the limiters while time passes, for
\* any configured window of rateLimiter up to the key expiry.
Paths == {"chat", "aiChat"}

NextLimiter ==
  \/ \E q \in Reqs, u \in Users \cup {NoUser}, path \in Paths :
        Request(q, "ip1", u, path)
  \/ \E q \in Reqs : RedisIncr(q)
  \/ \E q \in Reqs : RedisExpire(q)
  \/ \E q \in Reqs : AiChatLimiter(q)
  \/ Tick

InitLimiter ==
  InitRows(MaxLimit) /\ Online /\ \E w \in 1..ExpireTicks : LimiterBoot(w)

SpecLimiter == InitLimiter /\ [][NextLimiter]_vars

\* A burst of requests within one window: no tick.
NextBurst ==
  \/ \E q \in Reqs, ip \in Ips, u \in Users \cup {NoUser}, path \in Paths :
        Request(q, ip, u, path)
  \/ \E q \in Reqs : RedisIncr(q)
  \/ \E q \in Reqs : RedisExpire(q)
  \/ \E q \in Reqs : AiChatLimiter(q)

SpecBurst == InitRooms /\ [][NextBurst]_vars

\* The same burst, all of it from one address, with or without u1's token.
NextBurstOneAddress ==
  \/ \E q \in Reqs, u \in {"u1", NoUser}, path \in Paths :
        Request(q, "ip1", u, path)
  \/ \E q \in Reqs : RedisIncr(q)
  \/ \E q \in Reqs : RedisExpire(q)
  \/ \E q \in Reqs : AiChatLimiter(q)

SpecBurstOneAddress == InitRooms /\ [][NextBurstOneAddress]_vars

\* The three ways into the assistant, up to the point where the invocation is
\* taken up: ai-chat requests through the middleware, ai_chat events and
\* send_message events that mention '@ai'.
NextAdmission ==
  \/ \E q \in Reqs : Request(q, "ip1", "u1", "aiChat")
  \/ \E q \in Reqs : RedisIncr(q)
  \/ \E q \in Reqs : RedisExpire(q)
  \/ \E q \in Reqs : AiChatLimiter(q)
  \/ \E p \in Procs, s \in Sessions, r \in Rooms : StartLiveAI(p, s, r)
  \/ \E p \in Procs, s \in Sessions : StartLiveSend(p, s, "r1", TRUE)
  \/ \E p \in Procs : ReadMembership(p)
  \/ \E p \in Procs : LiveSendCreate(p)
  \/ \E p \in Procs : LiveSendBroadcast(p)
  \/ \E p \in Procs : LiveReadQuota(p)

SpecAdmission == InitRooms /\ [][NextAdmission]_vars

\* Assistant invocations on both transports with a provider that may answer,
\* throw, or never answer.  Every awaited call that does return resumes its
\* handler (the event loop runs every continuation that is ready).
NextStall ==
  \/ \E p \in Procs, s \in Sessions, r \in Rooms : StartLiveAI(p, s, r)
  \/ \E p \in Procs, u \in Users, r \in Rooms : StartHttpAI(p, u, r)
  \/ \E p \in Procs : ReadMembership(p)
  \/ \E p \in Procs : HttpAICheck(p)
  \/ \E p \in Procs : LiveReadQuota(p)
  \/ \E p \in Procs : Generate(p)
  \/ \E p \in Procs : ProviderStalls(p)
  \/ \E p \in Procs : AiCreate(p)
  \/ \E p \in Procs : IncrementSubscription(p)
  \/ \E p \in Procs : IncrementUser(p)
  \/ \E p \in Procs : AiBroadcast(p)

SpecStall ==
  /\ InitRooms /\ [][NextStall]_vars
  /\ \A p \in Procs :
       /\ WF_vars(ReadMembership(p)) /\ WF_vars(HttpAICheck(p))
       /\ WF_vars(LiveReadQuota(p)) /\ WF_vars(Generate(p))
       /\ WF_vars(AiCreate(p)) /\ WF_vars(IncrementSubscription(p))
       /\ WF_vars(IncrementUser(p)) /\ WF_vars(AiBroadcast(p))

\* Typing indicators among sockets that join and leave rooms and disconnect.
NextTyping ==
  \/ \E p \in Procs, s \in Sessions, r \in Rooms, ev \in TypingEvents : Typing(p, s, r, ev)
  \/ \E p \in Procs, s \in Sessions, r \in Rooms : StartJoinRoom(p, s, r)
  \/ \E p \in Procs, s \in Sessions, r \in Rooms : LeaveRoom(p, s, r)
  \/ \E p \in Procs : ReadMembership(p)
  \/ \E p \in Procs : JoinRoom(p)
  \/ \E s \in Sessions : Disconnect(s)

SpecTyping == InitRooms /\ [][NextTyping]_vars

\* ai_chat invocations whose sockets may disconnect at any of their awaits.
NextCancel ==
  \/ \E p \in Procs, s \in Sessions, r \in Rooms : StartLiveAI(p, s, r)
  \/ \E p \in Procs : LiveReadQuota(p)
  \/ \E p \in Procs : Generate(p)
  \/ \E p \in Procs : AiCreate(p)
  \/ \E p \in Procs : IncrementSubscription(p)
  \/ \E p \in Procs : IncrementUser(p)
  \/ \E p \in Procs : AiBroadcast(p)
  \/ \E s \in Sessions : Disconnect(s)

SpecCancel == InitRooms /\ [][NextCancel]_vars

\* Messages of any content length sent over both transports.
NextContent ==
  \/ \E p \in Procs, s \in Sessions, r \in Rooms, len \in ContentLengths :
       StartLiveSendContent(p, s, r, len)
  \/ \E p \in Procs, u \in Users, r \in Rooms, len \in ContentLengths :
       StartHttpSendContent(p, u, r, len)
  \/ \E p \in Procs : ReadMembership(p)
  \/ \E p \in Procs : LiveSendCreate(p)
  \/ \E p \in Procs : LiveSendBroadcast(p)
  \/ \E p \in Procs : HttpSendCreate(p)

SpecContent == InitRooms /\ [][NextContent]_vars

\* Assistant invocations on both transports, with any conversation context.
NextPrompt ==
  \/ \E p \in Procs, s \in Sessions, r \in Rooms, c \in Contexts : StartLiveAIContext(p, s, r, c)
  \/ \E p \in Procs, u \in Users, r \in Rooms, c \in Contexts : StartHttpAIContext(p, u, r, c)
  \/ \E p \in Procs : ReadMembership(p)
  \/ \E p \in Procs : HttpAICheck(p)
  \/ \E p \in Procs : LiveReadQuota(p)
  \/ \E p \in Procs : Generate(p)
  \/ \E p \in Procs : AiCreate(p)
  \/ \E p \in Procs : IncrementSubscription(p)
  \/ \E p \in Procs : IncrementUser(p)
  \/ \E p \in Procs : AiBroadcast(p)

SpecPrompt == InitRooms /\ [][NextPrompt]_vars

\* The membership management of the HTTP API: rooms are created, joined and left.
NextMembership ==
  \/ \E p \in Procs, u \in Users, t \in RoomTypes : CreateRoom(p, u, t)
  \/ \E p \in Procs, u \in Users, r \in AllRooms : StartHttpJoin(p, u, r)
  \/ \E p \in Procs, u \in Users, r \in AllRooms : StartHttpLeave(p, u, r)
  \/ \E p \in Procs : HttpJoinReadRoom(p)
  \/ \E p \in Procs : ReadMembership(p)
  \/ \E p \in Procs : HttpJoinCreate(p)
  \/ \E p \in Procs : HttpLeaveDelete(p)

SpecMembership == InitRooms /\ [][NextMembership]_vars

\* The same while sockets connect, use join_room and leave_room, and disconnect.
NextDerived ==
  \/ \E s \in Sessions, u \in Users : Connect(s, u)
  \/ \E s \in Sessions : JoinUserChatRooms(s)
  \/ \E s \in Sessions : Disconnect(s)
  \/ \E p \in Procs, s \in Sessions, r \in Rooms : StartJoinRoom(p, s, r)
  \/ \E p \in Procs, s \in Sessions, r \in Rooms : LeaveRoom(p, s, r)
  \/ \E p \in Procs : JoinRoom(p)
  \/ \E p \in Procs, u \in Users, r \in Rooms : StartHttpJoin(p, u, r)
  \/ \E p \in Procs, u \in Users, r \in Rooms : StartHttpLeave(p, u, r)
  \/ \E p \in Procs : HttpJoinReadRoom(p)
  \/ \E p \in Procs : ReadMembership(p)
  \/ \E p \in Procs : HttpJoinCreate(p)
  \/ \E p \in Procs : HttpLeaveDelete(p)

SpecDerived == InitBoot /\ [][NextDerived]_vars

\* Join requests racing for a room with one place left.
NextJoinRace ==
  \/ \E p \in Procs, u \in Users, r \in AllRooms : StartHttpJoin(p, u, r)
  \/ \E p \in Procs : HttpJoinReadRoom(p)
  \/ \E p \in Procs : ReadMembership(p)
  \/ \E p \in Procs : HttpJoinCreate(p)

InitJoinRace == InitOpenRoom /\ Online /\ LimiterDefault

SpecJoinRace == InitJoinRace /\ [][NextJoinRace]_vars

\* What the authorization header of a request can carry: nothing, the token of
\* the active user u1, a token of the suspended account u3, or a string that
\* jwt.verify throws on.
BadCredential == "bad"
Credentials == {"u1", NoUser, "u3", BadCredential}

NextCredential ==
  \/ \E q \in Reqs, u \in Credentials, path \in Paths : Request(q, "ip1", u, path)
  \/ \E q \in Reqs : RedisIncr(q)
  \/ \E q \in Reqs : RedisExpire(q)
  \/ \E q \in Reqs : AiChatLimiter(q)

SpecCredential == InitRooms /\ [][NextCredential]_vars

\* Assistant invocations over both transports, with users that may have no
\* Subscription row.
NextLedger ==
  \/ \E p \in Procs, s \in Sessions, r \in Rooms : StartLiveAI(p, s, r)
  \/ \E p \in Procs, s \in Sessions, r \in Rooms : StartLiveSend(p, s, r, TRUE)
  \/ \E p \in Procs, u \in Users, r \in Rooms : StartHttpAI(p, u, r)
  \/ \E p \in Procs : ReadMembership(p)
  \/ \E p \in Procs : LiveSendCreate(p)
  \/ \E p \in Procs : LiveSendBroadcast(p)
  \/ \E p \in Procs : HttpAICheck(p)
  \/ \E p \in Procs : LiveReadQuota(p)
  \/ \E p \in Procs : Generate(p)
  \/ \E p \in Procs : AiCreate(p)
  \/ \E p \in Procs : IncrementSubscription(p)
  \/ \E p \in Procs : IncrementUser(p)
  \/ \E p \in Procs : AiBroadcast(p)

InitLedgerOnline == InitLedger /\ Online /\ LimiterDefault

SpecLedger == InitLedgerOnline /\ [][NextLedger]_vars

(* ======================= the claims ======================= *)
Range(q) == {q[i] : i \in 1..Len(q)}

\* The handler invocations that are assistant invocations through ai-chat /
\* ai_chat, and those that reached handleAIResponse from send_message.
IsInvoke(p) == proc[p].kind \in {"httpAI", "liveAI"}
HasMembership(p) == <<proc[p].user, proc[p].room>> \in member
Done(p) == proc[p].pc = "done"
Succeeded(u) == {p \in Procs : proc[p].user = u /\ proc[p].aiResult = "ok"}

\* The caller of p has been told that p failed: the HTTP status, or an
\* error / ai_error event of p in the inbox of the socket that sent the event.
Told(p) ==
  IF proc[p].sess = NoSession
  THEN proc[p].status >= 400
  ELSE \E e \in Range(inbox[proc[p].sess]) : e \in {<<"error", p>>, <<"ai_error", p>>}

\* C1: of the invocations of one identity, however they overlap, no more
\* succeed than the allowance the identity had (nothing is reset in Spec): K
\* concurrent invocations on K-1 remaining units never all succeed.
C1_NoMoreSuccessesThanAllowance ==
  \A u \in Users : Cardinality(Succeeded(u)) <= sub[u].limit

\* C2: in every reachable state messagesUsed <= monthlyMessageLimit for every
\* subscription, with invocations, resets and plan changes interleaved.
C2_UsedWithinLimit ==
  \A u \in Users : sub[u].used <= sub[u].limit

\* C3: with the invocations of an identity run one after another from consumed
\* 0 and no reset, whenever none is in flight the remaining allowance is
\* max(0, A - N), N being the number of its invocations that succeeded, and an
\* invocation refused with QuotaExceeded consumed nothing and created no Message.
C3_RemainingAfterSuccesses ==
  InFlight(proc) = {} =>
    \A u \in Users :
      /\ Max(0, sub[u].limit - sub[u].used)
           = Max(0, sub[u].limit - Cardinality(Succeeded(u)))
      /\ \A p \in Procs :
           (proc[p].user = u /\ proc[p].aiResult = "QuotaExceeded") =>
             proc[p].amsg = 0 /\ ~proc[p].incSub /\ ~proc[p].called

\* C4: for an identity without Membership in the room, join_room fails and the
\* socket is not in the room, and send_message (live or HTTP) fails, persists
\* no Message and makes no new_message reach any socket.
C4_NonMemberRefused ==
  \A p \in Procs :
    (proc[p].kind \in {"joinRoom", "liveSend", "httpSend"} /\ ~HasMembership(p)) =>
      /\ proc[p].umsg = 0 /\ ~proc[p].ubcast
      /\ \A i \in 1..Len(messages) : messages[i].by # p
      /\ \A s \in Sessions : \A e \in Range(inbox[s]) :
            e[1] = "new_message" => messages[e[2]].by # p
      /\ proc[p].kind = "joinRoom" =>
            /\ proc[p].room \notin subs[proc[p].sess]
            /\ <<"joined_room", p>> \notin Range(inbox[proc[p].sess])
      /\ Done(p) => proc[p].result \in {"Forbidden", "Error"}

\* A non-member's join_room and a non-member's send_message have both been refused.
C4_Witness ==
  \E p, q \in Procs :
    /\ Done(p) /\ proc[p].kind = "joinRoom" /\ proc[p].result = "Forbidden"
    /\ ~HasMembership(p)
    /\ Done(q) /\ proc[q].kind \in {"liveSend", "httpSend"}
    /\ proc[q].result = "Forbidden" /\ ~HasMembership(q)

\* C5: an invoke by an identity without Membership in the room calls no
\* provider, persists no Message, consumes no quota, broadcasts nothing and
\* ends Forbidden (or with the error of a membership read that threw), on both
\* transports.
C5_NonMemberInvokeForbidden ==
  \A p \in Procs :
    (IsInvoke(p) /\ ~HasMembership(p)) =>
      /\ ~proc[p].called /\ proc[p].amsg = 0
      /\ ~proc[p].incSub /\ ~proc[p].incUser /\ ~proc[p].abcast
      /\ Done(p) => proc[p].aiResult = "Forbidden" \/ proc[p].result = "Error"

\* C6: an invoke by a member on a room whose allowAI is false calls no
\* provider, persists no Message, consumes no quota and ends
\* AssistantDisabled (or with the error of a membership read that threw), on
\* both transports.
C6_DisabledRoomRefused ==
  \A p \in Procs :
    (IsInvoke(p) /\ HasMembership(p) /\ ~allowAI[proc[p].room]) =>
      /\ ~proc[p].called /\ proc[p].amsg = 0
      /\ ~proc[p].incSub /\ ~proc[p].incUser
      /\ Done(p) => proc[p].aiResult = "AssistantDisabled" \/ proc[p].result = "Error"

\* C7: when the provider call of a member's invocation fails, the caller is
\* told, no assistant Message is persisted, neither counter moved, and the
\* trigger message of a send_message stays persisted.
C7_ProviderFailure ==
  \A p \in Procs :
    (Done(p) /\ proc[p].failedAt = "provider" /\ HasMembership(p)) =>
      /\ Told(p)
      /\ proc[p].aiResult = "GenerationFailed"
      /\ proc[p].amsg = 0 /\ ~proc[p].incSub /\ ~proc[p].incUser
      /\ proc[p].kind = "liveSend" =>
            /\ proc[p].umsg \in 1..Len(messages)
            /\ messages[proc[p].umsg].by = p

\* C8: an invoke that reports GenerationFailed has persisted nothing: no
\* assistant Message of it exists and it changed neither counter.
C8_FailureLeavesNothing ==
  \A p \in Procs :
    (Done(p) /\ proc[p].aiResult = "GenerationFailed") =>
      /\ proc[p].amsg = 0
      /\ ~proc[p].incSub /\ ~proc[p].incUser

\* C9: a finished invocation incremented both messagesUsed and messageCount
\* or neither.
C9_BothCountersOrNeither ==
  \A p \in Procs : Done(p) => (proc[p].incSub <=> proc[p].incUser)

\* C10: every Message a finished handler persisted, on any of the four paths,
\* has been emitted as new_message to its room.
C10_PersistedThenBroadcast ==
  \A p \in Procs :
    Done(p) =>
      /\ proc[p].umsg # 0 => proc[p].ubcast
      /\ proc[p].amsg # 0 => proc[p].abcast

\* C11: when send_message broadcasts its Message, every socket that is
\* connected and in the room at that moment is delivered the new_message, and
\* no other socket has it, whatever connects, join_room, leave_room and
\* disconnects came before.
C11_BroadcastFanout ==
  [][\A p \in Procs :
       (proc[p].kind = "liveSend" /\ proc[p].pc = "bcast" /\ proc'[p].ubcast) =>
         \A s \in Sessions :
           LET ev == <<"new_message", proc[p].umsg>> IN
           IF conn[s] = "open" /\ proc[p].room \in subs[s]
           THEN /\ Len(inbox'[s]) > Len(inbox[s])
                /\ inbox'[s][Len(inbox[s]) + 1] = ev
           ELSE ev \notin Range(inbox'[s])]_vars

\* A message was broadcast after a disconnect or a leave_room: one connected
\* socket has it and another connected socket, not in the room, has not.
C11_Witness ==
  \E p \in Procs, s, t \in Sessions :
    /\ proc[p].ubcast /\ conn[s] = "open" /\ conn[t] = "open"
    /\ <<"new_message", proc[p].umsg>> \in Range(inbox[s])
    /\ <<"new_message", proc[p].umsg>> \notin Range(inbox[t])
    /\ \E q \in Procs : proc[q].kind = "leaveRoom" \/ \E u \in Sessions : conn[u] = "closed"

\* C12: two new_message events of one room that two sockets both received
\* are in the same relative order in both, also when their send_message
\* handlers ran concurrently.
C12_SameRelativeOrder ==
  \A s, t \in Sessions :
    \A i, j \in 1..Len(inbox[s]) : \A k, l \in 1..Len(inbox[t]) :
      ( /\ inbox[s][i][1] = "new_message" /\ inbox[s][j][1] = "new_message"
        /\ inbox[t][k] = inbox[s][i] /\ inbox[t][l] = inbox[s][j]
        /\ messages[inbox[s][i][2]].room = messages[inbox[s][j][2]].room )
      => (i < j <=> k < l)

\* Two sockets have both received the same two messages of a room, sent by
\* two handlers.
C12_Witness ==
  \E s, t \in Sessions : \E p, q \in Procs :
    /\ s # t /\ p # q /\ proc[p].ubcast /\ proc[q].ubcast
    /\ proc[p].room = proc[q].room
    /\ \A x \in {s, t} :
         {<<"new_message", proc[p].umsg>>, <<"new_message", proc[q].umsg>>}
            \subseteq Range(inbox[x])

\* C13: on every socket the new_message events of a room arrive in the order
\* their Messages were created (ids are in createdAt order).
C13_CreationOrderDelivery ==
  \A s \in Sessions :
    \A i, j \in 1..Len(inbox[s]) :
      ( /\ i < j
        /\ inbox[s][i][1] = "new_message" /\ inbox[s][j][1] = "new_message"
        /\ messages[inbox[s][i][2]].room = messages[inbox[s][j][2]].room )
      => inbox[s][i][2] <= inbox[s][j][2]

\* The ceiling of a key, and the hits the stores have counted on it.
KeyMax(k) == IF k.auth THEN PremiumMax ELSE BaseMax
Min(a, b) == IF a <= b THEN a ELSE b
HitsOn(k) == {q \in Reqs : req[q].key = k /\ req[q].totalHits > 0}
AiHitsOn(k) == {q \in Reqs : AiKey(req[q].ip) = k /\ req[q].aiHits > 0}

\* C14: for both limiters and every key, a hit is allowed exactly when it is
\* among the first maxHits of its window, the window being counted from its
\* first hit and W long; the first hit after W starts a window with count 1.
C14_FixedWindow ==
  \A q \in Reqs :
    /\ (req[q].nth = 1 => req[q].totalHits = 1)
    /\ (req[q].aiNth = 1 => req[q].aiHits = 1)
    /\ req[q].general \in {"allowed", "limited"} =>
         (req[q].general = "allowed" <=> req[q].nth <= KeyMax(req[q].key))
    /\ req[q].ai \in {"allowed", "limited"} =>
         (req[q].ai = "allowed" <=> req[q].aiNth <= AiMax)

C16_KeyedByIdentity ==
  \A q, o \in Reqs :
    (req[q].pc # "idle" /\ req[o].pc # "idle") =>
      IF req[q].user # NoUser /\ req[o].user # NoUser
      THEN req[q].key = req[o].key <=> req[q].user = req[o].user
      ELSE IF req[q].user = NoUser /\ req[o].user = NoUser
      THEN req[q].key = req[o].key <=> req[q].ip = req[o].ip
      ELSE req[q].key # req[o].key

\* The assistant invocations taken up: ai-chat requests that reached the
\* route, ai_chat events, send_message events that reached handleAIResponse.
RECURSIVE SumHits(_, _)
SumHits(l, K) ==
  IF K = {} THEN 0
  ELSE LET k == CHOOSE x \in K : TRUE IN store[l][k].hits + SumHits(l, K \ {k})
HttpInvocations == {q \in Reqs : req[q].path = "aiChat" /\ req[q].ai = "allowed"}
LiveInvocations ==
  {p \in Procs :
     \/ proc[p].kind = "liveAI"
     \/ proc[p].kind = "liveSend" /\ (proc[p].pc \in {"quota", "gen"} \/ proc[p].aiResult # "")}

\* C17: every assistant invocation taken up, on any of the three ways in, was
\* allowed by the general window and by the assistant window and is a hit in
\* both: there are at least as many hits in each store as invocations.
C17_InvocationsRateLimited ==
  /\ \A q \in HttpInvocations :
        /\ req[q].general = "allowed" /\ req[q].totalHits \in 1..KeyMax(req[q].key)
        /\ req[q].aiHits \in 1..AiMax
  /\ \A l \in Limiters :
        Cardinality(HttpInvocations) + Cardinality(LiveInvocations) <= SumHits(l, Keys)

\* C18: a socket whose handshake token is missing, invalid or expired, or
\* names no ACTIVE user row, is never connected: it has no socket.user, no
\* registry entry, no room, no event delivered and no handler ran for it.
C18_BadHandshakeRejected ==
  \A s \in Sessions :
    ( /\ handshake[s] # NoToken
      /\ ~( /\ handshake[s].kind = "valid"
            /\ handshake[s].uid \in Accounts
            /\ UserStatus[handshake[s].uid] = "ACTIVE" ) )
    => /\ conn[s] \in {"auth", "rejected"}
       /\ sessUser[s] = NoUser /\ ~pendingJoin[s] /\ subs[s] = {}
       /\ \A u \in Users : connectedUsers[u] # s
       /\ inbox[s] = <<>>
       /\ \A p \in Procs : proc[p].sess # s

\* A socket with a signed token of the suspended account was rejected by the
\* lookup while another socket is connected and has had an event handled.
C18_Witness ==
  \E s, t \in Sessions : \E p \in Procs :
    /\ conn[s] = "rejected" /\ handshake[s] = ValidToken("u3")
    /\ conn[t] = "open" /\ proc[p].sess = t

\* C19: a connected socket is eventually in every room its user has a
\* ChatRoomMember row for (or is no longer connected), with no join_room sent.
C19_RoomsRestored ==
  \A s \in Sessions :
    (conn[s] = "open") ~>
      (conn[s] # "open" \/ \A r \in Rooms : <<sessUser[s], r>> \in member => r \in subs[s])

\* C20: a leave_room step takes the room out of that socket's rooms and
\* emits left_room to it, whether or not the socket was in the room; the
\* ChatRoomMember rows, the socket's other rooms, the other sockets' rooms
\* and the registry are as before.
C20_LeaveRoomFrame ==
  [][\A p \in Procs :
       (proc[p].pc = "idle" /\ proc'[p].kind = "leaveRoom") =>
         /\ member' = member
         /\ subs' = [subs EXCEPT ![proc'[p].sess] = @ \ {proc'[p].room}]
         /\ inbox' = [inbox EXCEPT ![proc'[p].sess] = Append(@, <<"left_room", p>>)]
         /\ conn' = conn /\ connectedUsers' = connectedUsers]_vars

\* One leave_room of a room the socket's user is a member of and one of a room
\* the socket was never in have both been acknowledged.
C20_Witness ==
  \E p, q \in Procs :
    /\ proc[p].kind = "leaveRoom" /\ proc[q].kind = "leaveRoom"
    /\ <<proc[p].user, proc[p].room>> \in member
    /\ <<proc[q].user, proc[q].room>> \notin member
    /\ <<"left_room", p>> \in Range(inbox[proc[p].sess])
    /\ <<"left_room", q>> \in Range(inbox[proc[q].sess])

\* C25: an error or ai_error event that a live handler emitted is in the
\* inbox of the socket that sent the event and of no other socket.
C25_NoticeToSenderOnly ==
  \A p \in Procs, s \in Sessions :
    (<<"error", p>> \in Range(inbox[s]) \/ <<"ai_error", p>> \in Range(inbox[s]))
      => s = proc[p].sess

\* C27: an assistant invocation that has started eventually completes (its
\* handler ends, with the assistant's Message persisted or a failure
\* reported), also when the provider call never returns.
C27_InvocationCompletes ==
  \A p \in Procs :
    (proc[p].kind \in {"liveAI", "httpAI"} /\ proc[p].pc # "idle") ~>
      Done(p)

C22_TypingRelay ==
  [][\A p \in Procs :
       (proc[p].pc = "idle" /\ proc'[p].kind = "typing") =>
         /\ \A t \in Sessions :
              inbox'[t] =
                IF t # proc'[p].sess /\ conn[t] = "open" /\ proc'[p].room \in subs[t]
                THEN Append(inbox[t], <<proc'[p].result, p>>)
                ELSE inbox[t]
         /\ member' = member /\ sub' = sub /\ messageCount' = messageCount
         /\ messages' = messages /\ chatRoom' = chatRoom /\ owners' = owners]_vars

\* A typing event of a socket that is in the room reached the other socket of
\* the room and not the sender; another, for a room the other socket is not in,
\* reached nobody.
C22_Witness ==
  \E p, q \in Procs, t \in Sessions :
    /\ proc[p].kind = "typing" /\ proc[q].kind = "typing"
    /\ t # proc[p].sess /\ t # proc[q].sess
    /\ <<proc[p].result, p>> \in Range(inbox[t])
    /\ <<proc[p].result, p>> \notin Range(inbox[proc[p].sess])
    /\ proc[p].room \in subs[proc[p].sess]
    /\ conn[t] = "open" /\ proc[q].room \notin subs[t]
    /\ \A s \in Sessions : <<proc[q].result, q>> \notin Range(inbox[s])

\* C26: an ai_chat invocation whose socket disconnected while it was in
\* flight, whose provider call returned and none of whose database calls was
\* rejected, has ended with the assistant's Message persisted, both usage
\* counters incremented and the Message emitted: every socket still connected
\* and in the room has it, the disconnected socket has not.
C26_DisconnectDoesNotCancel ==
  \A p \in Procs :
    (Done(p) /\ proc[p].kind = "liveAI" /\ proc[p].gone
       /\ proc[p].called /\ proc[p].failedAt = "") =>
      /\ proc[p].amsg # 0 /\ proc[p].amsg <= Len(messages)
      /\ messages[proc[p].amsg].by = p /\ messages[proc[p].amsg].sender = "AI"
      /\ proc[p].incSub /\ proc[p].incUser /\ proc[p].abcast
      /\ <<"new_message", proc[p].amsg>> \notin Range(inbox[proc[p].sess])
      /\ \A t \in Sessions :
           (conn[t] = "open" /\ proc[p].room \in subs[t]) =>
             <<"new_message", proc[p].amsg>> \in Range(inbox[t])

\* A socket left while its invocation was in flight; the invocation went
\* through, the quota is used and a socket still in the room has the
\* assistant's Message.
C26_Witness ==
  \E p \in Procs, t \in Sessions :
    /\ Done(p) /\ proc[p].kind = "liveAI" /\ proc[p].gone /\ proc[p].aiResult = "ok"
    /\ conn[proc[p].sess] = "closed" /\ conn[t] = "open"
    /\ <<"new_message", proc[p].amsg>> \in Range(inbox[t])
    /\ sub[proc[p].user].used > 0

\* C24: a send by a member whose content is empty or longer than 4000
\* characters ends with InvalidArgument on either transport (or with the
\* internal error of a rejected database read); no Message row was created for
\* it and no new_message was emitted for it.
C24_InvalidContentRefused ==
  \A p \in Procs :
    (proc[p].kind \in {"liveSend", "httpSend"} /\ proc[p].content # "ok"
       /\ <<proc[p].user, proc[p].room>> \in member) =>
      /\ \A i \in 1..Len(messages) : messages[i].by # p
      /\ proc[p].umsg = 0 /\ ~proc[p].ubcast
      /\ Done(p) => proc[p].result \in {"InvalidArgument", "Error"}

\* The prompt the specification describes for an invocation: the context turns
\* in their order and then the user message, or the persona and the user message.
ExpectedPrompt(f) ==
  IF f.ctx.given
  THEN [i \in 1..(Len(f.ctx.turns) + 1) |->
          IF i <= Len(f.ctx.turns)
          THEN [role |-> IF f.ctx.turns[i].role = "user" THEN "User" ELSE "Assistant",
                content |-> f.ctx.turns[i].content]
          ELSE [role |-> "User", content |-> UserMessage]]
  ELSE <<[role |-> "", content |-> Persona], [role |-> "User", content |-> UserMessage]>>

\* C29: the prompt an invocation sent to the provider is the context turns in
\* their given order followed by the user message once, when a context of at
\* least one turn was supplied, and the persona instruction followed by the
\* user message when none was supplied.
C29_PromptComposition ==
  \A p \in Procs :
    (proc[p].called /\ (~proc[p].ctx.given \/ Len(proc[p].ctx.turns) > 0)) =>
      proc[p].prompt = ExpectedPrompt(proc[p])

\* C28: an HTTP ai-chat and a live ai_chat of the same user, room, message
\* and context agree: what the route refuses for the membership or the
\* room's allowAI flag the live handler does not send to the provider, and when
\* both call the provider they send the same prompt.
C28_TransportsAgree ==
  \A p, q \in Procs :
    (proc[p].kind = "httpAI" /\ proc[q].kind = "liveAI" /\ proc[p].user = proc[q].user
       /\ proc[p].room = proc[q].room /\ proc[p].ctx = proc[q].ctx) =>
      /\ proc[p].aiResult \in {"Forbidden", "AssistantDisabled"} => ~proc[q].called
      /\ (proc[p].called /\ proc[q].called) => proc[p].prompt = proc[q].prompt

\* Every room that exists has the ChatRoomMember row of its creator, with role OWNER.
OwnerKept ==
  \A r \in AllRooms :
    chatRoom[r].exists =>
      <<chatRoom[r].createdBy, r>> \in member /\ <<chatRoom[r].createdBy, r>> \in owners

\* C23: the step that answers a leave request of a room's owner answers with
\* an error and leaves the ChatRoomMember rows as they were; and after every
\* step of creating, joining and leaving, every room has its owner's row.
C23_OwnerStays ==
  [][/\ OwnerKept'
     /\ \A p \in Procs :
          (proc[p].kind = "httpLeave" /\ proc[p].pc = "checked" /\ proc'[p].pc = "done"
             /\ <<proc[p].user, proc[p].room>> \in owners) =>
            (member' = member /\ owners' = owners /\ proc'[p].status >= 400)]_vars

\* The owner of a room asked to leave and was refused, and a plain member of a
\* room asked to leave and is out.
C23_Witness ==
  \E p, q \in Procs :
    /\ proc[p].kind = "httpLeave" /\ proc[p].result = "OwnerCannotLeave"
    /\ <<proc[p].user, proc[p].room>> \in member
    /\ proc[q].kind = "httpLeave" /\ proc[q].result = "left"
    /\ <<proc[q].user, proc[q].room>> \notin member

\* C30: every room a connected socket is in is a room its user has a
\* ChatRoomMember row for.
C30_SubscriptionFromMembership ==
  \A s \in Sessions :
    conn[s] = "open" => \A r \in subs[s] : <<sessUser[s], r>> \in member

\* C31: no (userId, chatRoomId) pair has more than one ChatRoomMember row,
\* also after two join requests of one user for one room that both found no
\* membership before either created its row.
C31_OneMembershipPerPair ==
  \A k \in Accounts \X AllRooms :
    /\ memberRows[k] <= 1
    /\ k \in member <=> memberRows[k] = 1

\* Two joins of one user for one room both passed the membership check; one
\* created the row and the other's create was rejected.
C31_Witness ==
  \E p, q \in Procs :
    /\ p # q /\ proc[p].kind = "httpJoin" /\ proc[q].kind = "httpJoin"
    /\ proc[p].user = proc[q].user /\ proc[p].room = proc[q].room
    /\ proc[p].result = "joined" /\ proc[q].result = "Error" /\ proc[q].role = ""
    /\ memberRows[<<proc[p].user, proc[p].room>>] = 1

\* C37: no room has more ChatRoomMember rows than its maxMembers, also when
\* two users ask to join a room that has one place left at the same time.
C37_WithinCapacity ==
  \A r \in AllRooms : chatRoom[r].exists => MemberCount(r) <= chatRoom[r].maxMembers

\* C39: a typing_start or typing_stop naming room R is delivered to R's
\* subscribers only if the sending session's identity holds a Membership in R.
C39_TypingNeedsMembership ==
  \A p \in Procs, t \in Sessions :
    (proc[p].kind = "typing" /\ <<proc[p].result, p>> \in Range(inbox[t]))
      => IsMember(proc[p].user, proc[p].room)

LiveSessions(u) == {s \in Sessions : conn[s] = "open" /\ sessUser[s] = u}

\* C35: connectedUsers has an entry for an identity exactly when that identity
\* has a live session, and the entry names one of its live sessions.
C35_RegistryMatchesSessions ==
  \A u \in Users :
    /\ connectedUsers[u] # NoSession <=> LiveSessions(u) # {}
    /\ connectedUsers[u] # NoSession => connectedUsers[u] \in LiveSessions(u)

\* C36: a session acknowledged with left_room for room R is not subscribed to
\* R as long as it has sent no join_room for R, also when the leave_room was
\* handled while the connect-time restoration was still in progress.
C36_LeftStaysLeft ==
  \A p \in Procs :
    (/\ proc[p].kind = "leaveRoom"
     /\ <<"left_room", p>> \in Range(inbox[proc[p].sess])
     /\ conn[proc[p].sess] = "open"
     /\ \A q \in Procs :
          ~(proc[q].kind = "joinRoom" /\ proc[q].sess = proc[p].sess
                                      /\ proc[q].room = proc[p].room))
      => proc[p].room \notin subs[proc[p].sess]

\* C34: every counter key present in a store has an expiry, unless the
\* redis.expire of the hit that created it is still to be answered.
C34_EveryKeyExpires ==
  \A l \in Limiters, k \in Keys :
    store[l][k].hits > 0 =>
      \/ store[l][k].ttl # NoTtl
      \/ l = "general" /\ \E q \in Reqs : req[q].pc = "expire" /\ req[q].key = k

\* C32: within a window the expiry set by the first hit is not moved by later
\* hits, every later hit (rejected ones too) adds one to the counter, and the
\* resetTime reported for the hit is the expiry of the window.
C32_ExpirySetOnce ==
  [][\A q \in Reqs :
       (/\ req[q].pc = "incr" /\ req'[q].totalHits > 0
        /\ store["general"][req[q].key].ttl # NoTtl) =>
         /\ store'["general"][req[q].key].ttl = store["general"][req[q].key].ttl
         /\ store'["general"][req[q].key].hits = store["general"][req[q].key].hits + 1
         /\ req'[q].resetIn = store'["general"][req[q].key].ttl]_vars

\* C40: a request the general limiter lets through beyond the unauthenticated
\* ceiling carries a valid credential of an active identity.
C40_PremiumNeedsValidCredential ==
  \A q \in Reqs :
    (req[q].general = "allowed" /\ req[q].totalHits > BaseMax)
      => FindActiveUser(req[q].user)

\* C33: the remaining value a successful HTTP invoke answers with is the
\* remaining its quota check read minus one, is not negative, and (nothing
\* else of that user running in between) is limit - used of the ledger after
\* the call.
C33_RemainingReported ==
  [][\A p \in Procs :
       (proc[p].kind = "httpAI" /\ proc[p].pc = "incUser" /\ proc'[p].aiResult = "ok") =>
         /\ proc'[p].respRemaining = proc[p].remaining - 1
         /\ proc'[p].respRemaining >= 0
         /\ proc'[p].respRemaining
              = sub'[proc[p].user].limit - sub'[proc[p].user].used]_vars

\* Two successful HTTP invokes of a user with allowance two, one after the
\* other: the first answered remaining 1, the second 0.
C33_Witness ==
  \E p, q \in Procs :
    /\ p < q /\ proc[p].user = proc[q].user
    /\ proc[p].kind = "httpAI" /\ proc[q].kind = "httpAI"
    /\ proc[p].aiResult = "ok" /\ proc[q].aiResult = "ok"
    /\ proc[p].respRemaining = 1 /\ proc[q].respRemaining = 0
    /\ sub[proc[p].user].limit - sub[proc[p].user].used = 0

\* C38: an invocation whose quota check could not read the ledger, or found
\* no subscription row, is refused on either transport: the provider is not
\* called, no assistant Message is persisted and it changes no counter.
C38_QuotaCheckFailsClosed ==
  \A p \in Procs :
    proc[p].quota \in {"unreadable", "norow"} =>
      /\ ~proc[p].called /\ proc[p].amsg = 0
      /\ ~proc[p].incSub /\ ~proc[p].incUser
      /\ proc[p].pc \in {"gen", "done"}
      /\ proc[p].pc = "done" => proc[p].aiResult = "QuotaExceeded"

\* An HTTP invoke of a user without subscription row and a live one whose
\* ledger read was rejected have both been refused, with nothing written.
C38_Witness ==
  \E p, q \in Procs :
    /\ proc[p].kind = "httpAI" /\ proc[p].quota = "norow"
    /\ proc[q].kind \in {"liveAI", "liveSend"} /\ proc[q].quota = "unreadable"
    /\ proc[p].pc = "done" /\ proc[q].pc = "done"
    /\ proc[p].status = 429 /\ <<"ai_error", q>> \in Range(inbox[proc[q].sess])
    /\ \A u \in Users : sub[u].used = 0 /\ messageCount[u] = 0
    /\ \A i \in 1..Len(messages) : messages[i].sender # "AI"

====
